---------------------------- MODULE Spec2Model ----------------------------
(***************************************************************************)
(* SportSee chart bindings (src/src/services/chartHooks.js).               *)
(*                                                                         *)
(* One binding is one instance of useActivityChart, useSessionsChart,      *)
(* usePerformanceChart or useScoreChart: a {data, loading, error} state    *)
(* cell, an effect keyed on [userId] that starts a Gateway call            *)
(* (sportSeeAPI) and a cleanup that raises the isCancelled flag of the     *)
(* effect's closure.  Every Gateway call is a request record; its          *)
(* completion (the continuation after `await`) is a separate step, so all  *)
(* interleavings of starts and completions are explored.                   *)
(*                                                                         *)
(* JavaScript values are encoded as follows: user ids and error messages   *)
(* are strings ("18", "NaN", "undefined", "null"); objects are records,    *)
(* and the optional chaining `o?.f` is a test on DOMAIN o; a nullable      *)
(* value is a sequence of length at most one (None, Some(v)); scores are   *)
(* integers in thousandths.                                                *)
(***************************************************************************)
EXTENDS Integers, Sequences, FiniteSets, TLC

VARIABLES
    hooks,      \* the chart bindings instantiated in this run
    mode,       \* origin of the Gateway: "mock" or "remote"
    state,      \* state[c]: the published {data, loading, error} of binding c
    requests,   \* requests[c]: the Gateway calls of c, in start order
    lastDeps,   \* lastDeps[c]: the dependency array of the last effect run
    cleanup,    \* cleanup[c]: request whose closure the registered cleanup cancels (0: none)
    attached,   \* attached[c]: the consumer is mounted
    remounted,  \* remounted[c]: StrictMode has replayed the mount effect
    renders,    \* renders[c]: how many times the binding was invoked (rendered)
    uncaught,   \* uncaught[c]: an exception escaped loadData (unhandled rejection)
    lastEvent,  \* lastEvent[c]: the kind of the latest step of binding c: "none",
                \* "start", "idle", "same", "resolved", "rejected", "teardown", "reattach"
    raw,        \* the raw record handed to a formatting step on its own
    out         \* what that formatting step produced (None: not applied yet)

vars == <<hooks, mode, state, requests, lastDeps, cleanup, attached,
          remounted, renders, uncaught, lastEvent, raw, out>>

----------------------------------------------------------------------------
(* Bounds of the exploration.                                              *)

MaxRenders == 3

----------------------------------------------------------------------------
(* JavaScript values.                                                      *)

JsNull == "null"
JsUndefined == "undefined"

None == <<>>
Some(v) == <<v>>

Charts == {"activity", "sessions", "performance", "score"}

\* The ids of the two users of the backend and of the fixtures.
KnownUserIds == {"12", "18"}

\* The values a caller may pass as userId: the two known users, an unknown
\* user, and the falsy values.
FalsyUserIds == {"0", "NaN", "undefined", "null"}
UserIdValues == KnownUserIds \cup {"999"} \cup FalsyUserIds

\* The mutant: the effect does not return early on a missing id.
IsFalsy_never(u) == FALSE

\* `!userId`
IsFalsy(u) == u \in FalsyUserIds

Modes == {"mock", "remote"}

InitialState == [data |-> None, loading |-> TRUE, error |-> JsNull]

\* No record is being formatted on its own.
NoInput == [fn |-> "none"]

----------------------------------------------------------------------------
(* Dependency arrays.  Every render builds a new array `[userId]`; ref is  *)
(* the identity of that array instance.                                    *)

NoDeps == [ref |-> 0, items |-> <<>>]

NewDeps(c, u) == [ref |-> renders[c] + 1, items |-> <<u>>]

\* Object.is on the encoded values (NaN is the same value as NaN).
ObjectIs(a, b) == a = b

\* The mutant: comparing the arrays by identity.
areHookInputsEqual_byIdentity(next, prev) == next.ref = prev.ref

\* The comparison behind `useEffect(..., [userId])`: item by item, by value.
areHookInputsEqual(next, prev) ==
    /\ Len(next.items) = Len(prev.items)
    /\ \A i \in 1..Len(next.items) : ObjectIs(next.items[i], prev.items[i])


----------------------------------------------------------------------------
(* Payloads returned by the Gateway (shapes of the README's data section   *)
(* and of the typedefs UserData, ActivityData, SessionsData and            *)
(* PerformanceData), one fixture per known user and chart, and the         *)
(* payloads that fail the shape test of the hook that receives them.       *)

NullPayload == [isNull |-> TRUE]

\* `rawData?.f` is truthy: objects and arrays are truthy, 0 is not.
Has(p, f) == f \in DOMAIN p

Lookup(obj, key) == IF key \in DOMAIN obj THEN obj[key] ELSE JsUndefined

ActivityFixture(u) ==
    [userId |-> u,
     sessions |-> IF u = "18"
        THEN << [day |-> "2020-07-01", kilogram |-> 70, calories |-> 300],
                [day |-> "2020-07-02", kilogram |-> 69, calories |-> 350] >>
        ELSE << [day |-> "2020-07-01", kilogram |-> 80, calories |-> 240],
                [day |-> "2020-07-02", kilogram |-> 80, calories |-> 220],
                [day |-> "2020-07-03", kilogram |-> 81, calories |-> 280] >>]

SessionsFixture(u) ==
    [userId |-> u,
     sessions |-> IF u = "18"
        THEN << [day |-> 1, sessionLength |-> 45], [day |-> 2, sessionLength |-> 35],
                [day |-> 3, sessionLength |-> 50], [day |-> 4, sessionLength |-> 40],
                [day |-> 5, sessionLength |-> 20], [day |-> 6, sessionLength |-> 60],
                [day |-> 7, sessionLength |-> 70] >>
        ELSE << [day |-> 1, sessionLength |-> 30], [day |-> 3, sessionLength |-> 45] >>]

KindMap ==
    [k \in {"1", "2", "3", "4", "5", "6"} |->
        CASE k = "1" -> "cardio"   [] k = "2" -> "energy" [] k = "3" -> "endurance"
          [] k = "4" -> "strength" [] k = "5" -> "speed"  [] k = "6" -> "intensity"]

PerformanceFixture(u) ==
    [userId |-> u,
     kind |-> KindMap,
     data |-> IF u = "18"
        THEN << [value |-> 150, kind |-> "1"], [value |-> 180, kind |-> "2"],
                [value |-> 200, kind |-> "3"], [value |-> 90, kind |-> "4"],
                [value |-> 250, kind |-> "5"], [value |-> 160, kind |-> "6"] >>
        ELSE << [value |-> 80, kind |-> "1"], [value |-> 120, kind |-> "2"],
                [value |-> 140, kind |-> "3"] >>]

\* Scores are in thousandths: 0.3 is 300.
UserFixture(u) ==
    IF u = "18" THEN [id |-> u, todayScore |-> 300]
                ELSE [id |-> u, score |-> 120]

Payloads(c, u) ==
    CASE c = "activity" ->
            {ActivityFixture(u), [userId |-> u], NullPayload}
      [] c = "sessions" ->
            {SessionsFixture(u), [userId |-> u, sessions |-> <<>>], [userId |-> u]}
      [] c = "performance" ->
            {PerformanceFixture(u), [userId |-> u, kind |-> KindMap],
             [userId |-> u, data |-> PerformanceFixture(u).data]}
      [] c = "score" ->
            {UserFixture(u), [id |-> u, todayScore |-> 0, score |-> 500], NullPayload}

----------------------------------------------------------------------------
(* The Gateway: sportSeeAPI delegates to DataService, which settles the    *)
(* returned promise with a payload or with a thrown value.                 *)

NotFoundError == [type |-> "Error", message |-> "NotFound"]
NetworkError == [type |-> "Error", message |-> "Network"]
TypeErrorValue == [type |-> "Error", message |-> "TypeError"]

\* Thrown values that are not Error objects: a string and null.
NonErrorValues == {[type |-> "string"], [type |-> "null"]}

Pending == [kind |-> "pending"]
Resolve(p) == [kind |-> "resolve", payload |-> p]
Reject(v) == [kind |-> "reject", value |-> v]

\* The remote origin may fail in the transport.
TransportOutcomes(m) == IF m = "remote" THEN {Reject(NetworkError)} ELSE {}

\* DataService for an id that is not a known user: the not-found error, in
\* both origins.
UnknownUserOutcomes(m) == {Reject(NotFoundError)} \cup TransportOutcomes(m)

\* sportSeeAPI for a known user: `return await DataService.getUserX(userId)`
\* hands on whatever DataService settles with, a payload of any of the
\* shapes above or any thrown value.
KnownUserOutcomes(c, u, m) ==
    {Resolve(p) : p \in Payloads(c, u)}
        \cup TransportOutcomes(m) \cup {Reject(v) : v \in NonErrorValues}

\* What a call for user u may settle with.
GatewayOutcomes(c, u, m) ==
    IF u \in KnownUserIds THEN KnownUserOutcomes(c, u, m) ELSE UnknownUserOutcomes(m)

----------------------------------------------------------------------------
(* The body of each hook's loadData after the await: the result is the     *)
(* state it publishes ("set"), nothing ("skip"), or a value thrown inside  *)
(* the try block ("throw").                                                *)

Set(d) == [kind |-> "set", data |-> d]
Skip == [kind |-> "skip"]
Throw(v) == [kind |-> "throw", value |-> v]

\* The mutant: indexes counted from 0.
formatActivity_zeroBased(rawData) ==
    [sessions |->
        [i \in 1..Len(rawData.sessions) |->
            [day |-> i - 1,
             kilogram |-> rawData.sessions[i].kilogram,
             calories |-> rawData.sessions[i].calories,
             displayDay |-> ToString(i - 1)]]]

formatActivity(rawData) ==
    [sessions |->
        [i \in 1..Len(rawData.sessions) |->
            [day |-> i,
             kilogram |-> rawData.sessions[i].kilogram,
             calories |-> rawData.sessions[i].calories,
             displayDay |-> ToString(i)]]]

\* The mutant: the completion does not test isCancelled.
useActivityChart_try_unguarded(isCancelled, rawData) ==
    IF Has(rawData, "sessions") THEN Set(formatActivity(rawData)) ELSE Skip

useActivityChart_try(isCancelled, rawData) ==
    IF ~isCancelled /\ Has(rawData, "sessions")
    THEN Set(formatActivity(rawData))
    ELSE Skip

realSessions(rawData) ==
    [i \in 1..Len(rawData.sessions) |->
        [day |-> rawData.sessions[i].day,
         dayIndex |-> rawData.sessions[i].day,
         sessionLength |-> rawData.sessions[i].sessionLength,
         isReal |-> TRUE]]

\* The mutant: the opening ghost copies the session of the earliest weekday.
ghostStart_earliest(real) ==
    [day |-> 0, dayIndex |-> 0,
     sessionLength |->
        real[CHOOSE i \in 1..Len(real) : \A j \in 1..Len(real) :
                real[i].day < real[j].day \/ (real[i].day = real[j].day /\ i <= j)].sessionLength,
     isReal |-> FALSE, isGhost |-> TRUE]

ghostStart(real) ==
    [day |-> 0, dayIndex |-> 0, sessionLength |-> real[1].sessionLength,
     isReal |-> FALSE, isGhost |-> TRUE]

\* The mutant: the closing ghost copies the first session.
ghostEnd_first(real) ==
    [day |-> 8, dayIndex |-> 8, sessionLength |-> real[1].sessionLength,
     isReal |-> FALSE, isGhost |-> TRUE]

ghostEnd(real) ==
    [day |-> 8, dayIndex |-> 8, sessionLength |-> real[Len(real)].sessionLength,
     isReal |-> FALSE, isGhost |-> TRUE]

\* The mutant: an empty array is published as a success without entries.
useSessionsChart_try_empty(isCancelled, rawData) ==
    IF ~isCancelled /\ Has(rawData, "sessions")
    THEN LET real == realSessions(rawData)
         IN  IF Len(real) = 0
             THEN Set([sessions |-> <<>>])
             ELSE Set([sessions |-> <<ghostStart(real)>> \o real \o <<ghostEnd(real)>>])
    ELSE Skip

\* realSessions[0] of an empty array is undefined, and reading its
\* sessionLength throws a TypeError inside the try block.
useSessionsChart_try(isCancelled, rawData) ==
    IF ~isCancelled /\ Has(rawData, "sessions")
    THEN LET real == realSessions(rawData)
         IN  IF Len(real) = 0
             THEN Throw(TypeErrorValue)
             ELSE Set([sessions |-> <<ghostStart(real)>> \o real \o <<ghostEnd(real)>>])
    ELSE Skip

kindTranslations ==
    [k \in {"cardio", "energy", "endurance", "strength", "speed", "intensity"} |->
        CASE k = "cardio" -> "Cardio"       [] k = "energy" -> "Energie"
          [] k = "endurance" -> "Endurance" [] k = "strength" -> "Force"
          [] k = "speed" -> "Vitesse"       [] k = "intensity" -> "Intensite"]

\* The mutant: the order of the kind mapping (cardio first).
radarOrder_storage == <<"Cardio", "Energie", "Endurance", "Force", "Vitesse", "Intensite">>

radarOrder == <<"Intensite", "Vitesse", "Force", "Endurance", "Energie", "Cardio">>

fullMark == 250

\* The mutant: the last matching entry instead of the first.
findItem_last(rawData, frenchName) ==
    LET hits == {i \in 1..Len(rawData.data) :
                    Lookup(kindTranslations, Lookup(rawData.kind, rawData.data[i].kind))
                        = frenchName}
    IN  IF hits = {} THEN None
        ELSE Some(rawData.data[CHOOSE i \in hits : \A j \in hits : i >= j])

\* rawData.data.find(d => kindTranslations[rawData.kind[d.kind]] === frenchName)
findItem(rawData, frenchName) ==
    LET hits == {i \in 1..Len(rawData.data) :
                    Lookup(kindTranslations, Lookup(rawData.kind, rawData.data[i].kind))
                        = frenchName}
    IN  IF hits = {} THEN None
        ELSE Some(rawData.data[CHOOSE i \in hits : \A j \in hits : i <= j])

orderedData(rawData) ==
    [n \in 1..Len(radarOrder) |->
        LET item == findItem(rawData, radarOrder[n])
        IN  [subject |-> radarOrder[n],
             value |-> IF item # None THEN item[1].value ELSE 0,
             fullMark |-> fullMark]]

usePerformanceChart_try(isCancelled, rawData) ==
    IF ~isCancelled /\ Has(rawData, "data") /\ Has(rawData, "kind")
    THEN Set(orderedData(rawData))
    ELSE Skip

\* rawData?.todayScore || rawData?.score || 0
scoreOf(rawData) ==
    IF Has(rawData, "todayScore") /\ rawData.todayScore # 0 THEN rawData.todayScore
    ELSE IF Has(rawData, "score") /\ rawData.score # 0 THEN rawData.score
    ELSE 0

\* The mutant: the score rounded as it is, not as a percentage.
percentageOf_unscaled(score) == (score + 500) \div 1000

\* Math.round(score * 100), the score in thousandths: round half up.
percentageOf(score) == (score * 100 + 500) \div 1000

useScoreChart_try(isCancelled, rawData) ==
    IF ~isCancelled
    THEN Set([percentage |-> percentageOf(scoreOf(rawData))])
    ELSE Skip

\* The try block of loadData from the await on: a rejected call throws at
\* the await.
loadData_try(c, isCancelled, outcome) ==
    IF outcome.kind = "reject" THEN Throw(outcome.value)
    ELSE CASE c = "activity" -> useActivityChart_try(isCancelled, outcome.payload)
           [] c = "sessions" -> useSessionsChart_try(isCancelled, outcome.payload)
           [] c = "performance" -> usePerformanceChart_try(isCancelled, outcome.payload)
           [] c = "score" -> useScoreChart_try(isCancelled, outcome.payload)

\* `error.message` of the caught value: the message of an Error, undefined
\* for a string; reading a property of null throws.
MessageThrows(v) == v.type = "null"
MessageOf(v) == IF v.type = "Error" THEN v.message ELSE JsUndefined

\* The mutant: a catch block that swallows the failure.
loadData_catch_silent(isCancelled, v) == Skip

\* The catch block: what it publishes ("set"), nothing ("skip"), or the
\* exception that escapes loadData ("throw").
loadData_catch(isCancelled, v) ==
    IF ~isCancelled
    THEN IF MessageThrows(v) THEN Throw(TypeErrorValue)
         ELSE Set([data |-> None, loading |-> FALSE, error |-> MessageOf(v)])
    ELSE Skip

\* The whole continuation of loadData: the state written (None: no
\* setState call), whether an exception escaped, and which branch ran.
loadData_settle(c, isCancelled, outcome) ==
    LET t == loadData_try(c, isCancelled, outcome)
    IN  IF t.kind = "set"
        THEN [write |-> Some([data |-> Some(t.data), loading |-> FALSE, error |-> JsNull]),
              escaped |-> FALSE, branch |-> "success"]
        ELSE IF t.kind = "skip"
        THEN [write |-> None, escaped |-> FALSE,
              branch |-> IF isCancelled THEN "stale" ELSE "dropped"]
        ELSE LET k == loadData_catch(isCancelled, t.value)
             IN  IF k.kind = "set"
                 THEN [write |-> Some(k.data), escaped |-> FALSE, branch |-> "failure"]
                 ELSE IF k.kind = "skip"
                 THEN [write |-> None, escaped |-> FALSE, branch |-> "stale"]
                 ELSE [write |-> None, escaped |-> TRUE, branch |-> "escaped"]

----------------------------------------------------------------------------
(* The binding as a state machine.                                         *)

Init ==
    /\ hooks \in {{c} : c \in Charts}
    /\ mode \in Modes
    /\ state = [c \in Charts |-> InitialState]
    /\ requests = [c \in Charts |-> <<>>]
    /\ lastDeps = [c \in Charts |-> NoDeps]
    /\ cleanup = [c \in Charts |-> 0]
    /\ attached = [c \in Charts |-> TRUE]
    /\ remounted = [c \in Charts |-> FALSE]
    /\ renders = [c \in Charts |-> 0]
    /\ uncaught = [c \in Charts |-> FALSE]
    /\ lastEvent = [c \in Charts |-> "none"]
    /\ raw = NoInput
    /\ out = None

\* A request: the user id of the call, the isCancelled flag of the effect
\* closure that made it, whether the Gateway has settled it ("no", or
\* "live" / "stale": settled while isCancelled was false / true), and
\* whether it was pending when the consumer detached.
NewRequest(u) ==
    [userId |-> u, isCancelled |-> FALSE, settled |-> "no", tornDown |-> FALSE]

IsPending(r) == r.settled = "no"

\* The mutant: a cleanup that leaves the flag as it is.
runCleanup_noop(reqs, k) == reqs

\* The cleanup returned by the effect: `isCancelled = true` in the closure
\* of request k.
runCleanup(reqs, k) ==
    IF k = 0 THEN reqs ELSE [reqs EXCEPT ![k].isCancelled = TRUE]

\* The mutant: one state cell shared by the four hooks.
setState_shared(st, c, w) == [d \in Charts |-> w]

\* setState of binding c: each hook owns the cell its useState created.
setState(st, c, w) == [st EXCEPT ![c] = w]

\* The mutant: a new request that clears the data of the previous one.
loadingState_clearData(prev) == [prev EXCEPT !.data = None, !.loading = TRUE, !.error = JsNull]

\* The mutant: a new request that leaves the previous error in place.
loadingState_keepError(prev) == [prev EXCEPT !.loading = TRUE]

\* setState((prev) => ({ ...prev, loading: true, error: null }))
loadingState(prev) == [prev EXCEPT !.loading = TRUE, !.error = JsNull]

\* The effect body for user id u on the requests reqs of binding c: nothing
\* for a falsy id, else loadData() up to its await.
Effect(c, u, reqs) ==
    IF IsFalsy(u)
    THEN /\ requests' = [requests EXCEPT ![c] = reqs]
         /\ cleanup' = [cleanup EXCEPT ![c] = 0]
         /\ state' = state
    ELSE /\ requests' = [requests EXCEPT ![c] = Append(reqs, NewRequest(u))]
         /\ cleanup' = [cleanup EXCEPT ![c] = Len(reqs) + 1]
         /\ state' = setState(state, c, loadingState(state[c]))

\* The hook is invoked (the component renders) with user id u and the
\* commit runs the effect when the dependency array changed.
Render(c, u) ==
    /\ c \in hooks
    /\ attached[c]
    /\ renders[c] < MaxRenders
    /\ LET next == NewDeps(c, u)
           isMount == renders[c] = 0
       IN  /\ renders' = [renders EXCEPT ![c] = @ + 1]
           /\ lastDeps' = [lastDeps EXCEPT ![c] = next]
           /\ IF isMount \/ ~areHookInputsEqual(next, lastDeps[c])
              THEN /\ Effect(c, u, runCleanup(requests[c], cleanup[c]))
                   /\ lastEvent' = [lastEvent EXCEPT ![c] =
                            IF IsFalsy(u) THEN "idle" ELSE "start"]
              ELSE /\ UNCHANGED <<requests, cleanup, state>>
                   /\ lastEvent' = [lastEvent EXCEPT ![c] = "same"]
    /\ UNCHANGED <<hooks, mode, attached, remounted, uncaught, raw, out>>

\* The Gateway call of request i settles with outcome o and the
\* continuation of loadData runs.
Complete(c, i, o) ==
    /\ c \in hooks
    /\ i \in 1..Len(requests[c])
    /\ IsPending(requests[c][i])
    /\ o \in GatewayOutcomes(c, requests[c][i].userId, mode)
    /\ LET s == loadData_settle(c, requests[c][i].isCancelled, o)
       IN  /\ requests' = [requests EXCEPT ![c][i].settled =
                    IF requests[c][i].isCancelled THEN "stale" ELSE "live"]
           /\ state' = IF s.write = None THEN state
                       ELSE setState(state, c, s.write[1])
           /\ uncaught' = [uncaught EXCEPT ![c] = @ \/ s.escaped]
           /\ lastEvent' = [lastEvent EXCEPT ![c] =
                    IF o.kind = "resolve" THEN "resolved" ELSE "rejected"]
    /\ UNCHANGED <<hooks, mode, lastDeps, cleanup, attached, remounted, renders, raw, out>>

\* The consumer detaches: the registered cleanup runs.
Teardown(c) ==
    /\ c \in hooks
    /\ attached[c]
    /\ renders[c] >= 1
    /\ attached' = [attached EXCEPT ![c] = FALSE]
    /\ requests' = [requests EXCEPT ![c] =
            [i \in 1..Len(requests[c]) |->
                [runCleanup(requests[c], cleanup[c])[i] EXCEPT
                    !.tornDown = @ \/ IsPending(requests[c][i])]]]
    /\ cleanup' = [cleanup EXCEPT ![c] = 0]
    /\ lastEvent' = [lastEvent EXCEPT ![c] = "teardown"]
    /\ UNCHANGED <<hooks, mode, state, lastDeps, remounted, renders, uncaught, raw, out>>

\* StrictMode (main.jsx) detaches the component right after its mount and
\* attaches it again, state kept: the effect runs a second time with the
\* same user id.
Reattach(c) ==
    /\ c \in hooks
    /\ ~attached[c]
    /\ ~remounted[c]
    /\ renders[c] = 1
    /\ \A i \in 1..Len(requests[c]) : IsPending(requests[c][i])
    /\ attached' = [attached EXCEPT ![c] = TRUE]
    /\ remounted' = [remounted EXCEPT ![c] = TRUE]
    /\ Effect(c, lastDeps[c].items[1], requests[c])
    /\ lastEvent' = [lastEvent EXCEPT ![c] = "reattach"]
    /\ UNCHANGED <<hooks, mode, lastDeps, renders, uncaught, raw, out>>

Next ==
    \E c \in Charts :
        \/ \E u \in UserIdValues : Render(c, u)
        \/ \E i \in 1..Len(requests[c]) :
                \E o \in GatewayOutcomes(c, requests[c][i].userId, mode) : Complete(c, i, o)
        \/ Teardown(c)
        \/ Reattach(c)

Spec == Init /\ [][Next]_vars

----------------------------------------------------------------------------
(* useAllCharts: the four hooks invoked in one render with the same user   *)
(* id, and the value the aggregate folds from their four states.  A        *)
(* setState of any of the four hooks renders the consumer again, so the    *)
(* value returned is always the fold of the current states.                *)

MaxAllRenders == 1

\* `a || b` on error fields: the first operand unless it is null or undefined.
JsOr(a, b) == IF a \notin {JsNull, JsUndefined} THEN a ELSE b

\* The mutant: only the first chart's flag.
globalLoading_first == state["activity"].loading

globalLoading ==
    \/ state["activity"].loading
    \/ state["sessions"].loading
    \/ state["performance"].loading
    \/ state["score"].loading

hasError ==
    JsOr(JsOr(JsOr(state["activity"].error, state["sessions"].error),
              state["performance"].error),
         state["score"].error)

\* The mutant: no chart data is handed on once any chart has an error.
useAllCharts_blocking ==
    [activity |-> IF hasError = JsNull THEN state["activity"].data ELSE None,
     sessions |-> IF hasError = JsNull THEN state["sessions"].data ELSE None,
     performance |-> IF hasError = JsNull THEN state["performance"].data ELSE None,
     score |-> IF hasError = JsNull THEN state["score"].data ELSE None,
     loading |-> globalLoading,
     error |-> hasError,
     errors |-> [c \in Charts |-> state[c].error]]

\* The object useAllCharts returns.
useAllCharts ==
    [activity |-> state["activity"].data,
     sessions |-> state["sessions"].data,
     performance |-> state["performance"].data,
     score |-> state["score"].data,
     loading |-> globalLoading,
     error |-> hasError,
     errors |-> [c \in Charts |-> state[c].error]]

InitAll ==
    /\ hooks = Charts
    /\ mode \in Modes
    /\ state = [c \in Charts |-> InitialState]
    /\ requests = [c \in Charts |-> <<>>]
    /\ lastDeps = [c \in Charts |-> NoDeps]
    /\ cleanup = [c \in Charts |-> 0]
    /\ attached = [c \in Charts |-> TRUE]
    /\ remounted = [c \in Charts |-> FALSE]
    /\ renders = [c \in Charts |-> 0]
    /\ uncaught = [c \in Charts |-> FALSE]
    /\ lastEvent = [c \in Charts |-> "none"]
    /\ raw = NoInput
    /\ out = None

\* What one invocation of hook c with user id u and the commit that follows
\* do to the slices of c: the effect runs when the dependency array changed,
\* cancels the previous closure, and starts a call unless the id is falsy.
RenderSlice(c, u) ==
    LET next == NewDeps(c, u)
        runs == renders[c] = 0 \/ ~areHookInputsEqual(next, lastDeps[c])
        reqs == runCleanup(requests[c], cleanup[c])
    IN  IF ~runs
        THEN [deps |-> next, requests |-> requests[c], cleanup |-> cleanup[c],
              state |-> state[c], event |-> "same"]
        ELSE IF IsFalsy(u)
        THEN [deps |-> next, requests |-> reqs, cleanup |-> 0,
              state |-> state[c], event |-> "idle"]
        ELSE [deps |-> next, requests |-> Append(reqs, NewRequest(u)),
              cleanup |-> Len(reqs) + 1,
              state |-> loadingState(state[c]), event |-> "start"]

\* The consumer of useAllCharts renders with user id u: the four hooks are
\* invoked with it, and the commit runs their effects.
RenderAll(u) ==
    /\ hooks = Charts
    /\ \A c \in Charts : attached[c] /\ renders[c] < MaxAllRenders
    /\ renders' = [c \in Charts |-> renders[c] + 1]
    /\ lastDeps' = [c \in Charts |-> RenderSlice(c, u).deps]
    /\ requests' = [c \in Charts |-> RenderSlice(c, u).requests]
    /\ cleanup' = [c \in Charts |-> RenderSlice(c, u).cleanup]
    /\ state' = [c \in Charts |-> RenderSlice(c, u).state]
    /\ lastEvent' = [c \in Charts |-> RenderSlice(c, u).event]
    /\ UNCHANGED <<hooks, mode, attached, remounted, uncaught, raw, out>>

\* The consumer of useAllCharts detaches: the four cleanups run.
TeardownAll ==
    /\ hooks = Charts
    /\ \A c \in Charts : attached[c] /\ renders[c] >= 1
    /\ attached' = [c \in Charts |-> FALSE]
    /\ requests' = [c \in Charts |->
            [i \in 1..Len(requests[c]) |->
                [runCleanup(requests[c], cleanup[c])[i] EXCEPT
                    !.tornDown = @ \/ IsPending(requests[c][i])]]]
    /\ cleanup' = [c \in Charts |-> 0]
    /\ lastEvent' = [c \in Charts |-> "teardown"]
    /\ UNCHANGED <<hooks, mode, state, lastDeps, remounted, renders, uncaught, raw, out>>

NextAll ==
    \/ \E u \in UserIdValues : RenderAll(u)
    \/ \E c \in Charts : \E i \in 1..Len(requests[c]) :
            \E o \in GatewayOutcomes(c, requests[c][i].userId, mode) : Complete(c, i, o)
    \/ TeardownAll

SpecAll == InitAll /\ [][NextAll]_vars

----------------------------------------------------------------------------
(* The formatting steps on their own: the try block of a hook applied to   *)
(* one raw record by a closure that is not cancelled.  Scores are whole    *)
(* hundredths, written in thousandths.                                     *)

MaxScoreExcess == 20
MaxActivityLen == 3
WeekDays == 7

ScoreHundredths == (0 - MaxScoreExcess)..(100 + MaxScoreExcess)

\* Values for the records that carry both score fields.
BothScoreValues == {0, 120, 500}

UserRecords ==
    {[id |-> "18", todayScore |-> 10 * h] : h \in ScoreHundredths}
        \cup {[id |-> "12", score |-> 10 * h] : h \in ScoreHundredths}
        \cup {[id |-> "12", todayScore |-> t, score |-> v] :
                    t \in BothScoreValues, v \in BothScoreValues}
        \cup {[id |-> "12"], NullPayload}

SessionLengthValues == {0, 30, 60}

\* The average sessions of one week: days 1..7, one entry each.
WeekRecords ==
    {[userId |-> "18",
      sessions |-> [i \in 1..WeekDays |-> [day |-> i, sessionLength |-> f[i]]]] :
        f \in [1..WeekDays -> SessionLengthValues]}

ActivityEntries ==
    {[day |-> d, kilogram |-> k, calories |-> cal] :
        d \in {"2020-07-01", "2020-07-05"}, k \in {70, 80}, cal \in {240, 300}}

ActivityRecords ==
    {[userId |-> "18", sessions |-> q] :
        q \in UNION {[1..n -> ActivityEntries] : n \in 0..MaxActivityLen}}

MaxPerformanceLen == 3

\* The kind mapping of the backend, the same without id 6, and one whose
\* id 5 carries a label that is not one of the six.
PerformanceKindMaps ==
    {KindMap,
     [k \in {"1", "2", "3", "4", "5"} |-> KindMap[k]],
     [k \in DOMAIN KindMap |-> IF k = "5" THEN "balance" ELSE KindMap[k]]}

\* Entries of the data array; id 9 is in no mapping.
PerformanceEntries ==
    {[value |-> v, kind |-> k] : v \in {80, 150}, k \in {"1", "2", "5", "6", "9"}}

PerformanceRecords ==
    {[userId |-> "18", kind |-> km, data |-> q] :
        km \in PerformanceKindMaps,
        q \in UNION {[1..n -> PerformanceEntries] : n \in 0..MaxPerformanceLen}}

FormatInput(fn, v) == [fn |-> fn, pass |-> 1, value |-> v]

----------------------------------------------------------------------------
(* The Normalizer (DataNormalizer) and the Gateway behind sportSeeAPI      *)
(* (DataService): one function per entity from a raw record to the         *)
(* normalized one, applied by the Gateway in both origins.  The field      *)
(* names of the normalized entities are the README's.                      *)

MaxSessionsLen == 3

\* The mutant: the first entry of a weekday is kept.
mapPut_keep(m, k, v) ==
    IF k \in DOMAIN m THEN m ELSE [d \in DOMAIN m \cup {k} |-> IF d = k THEN v ELSE m[d]]

\* map[k] = v
mapPut(m, k, v) == [d \in DOMAIN m \cup {k} |-> IF d = k THEN v ELSE m[d]]

\* The map keyed by weekday, built from the input entries in input order.
RECURSIVE weekdayMap(_)
weekdayMap(q) ==
    IF Len(q) = 0 THEN [d \in {} |-> 0]
    ELSE mapPut(weekdayMap(SubSeq(q, 1, Len(q) - 1)),
                q[Len(q)].day, q[Len(q)].sessionLength)

\* The mutant: the entries as they came, no weekday added.
normalizeSessions_asGiven(q) == q

\* Weekdays 1..7 in order, 0 for a weekday the map does not have.
normalizeSessions(q) ==
    LET m == weekdayMap(q)
    IN  [d \in 1..WeekDays |->
            [day |-> d, sessionLength |-> IF d \in DOMAIN m THEN m[d] ELSE 0]]

\* raw.todayScore ?? raw.score ?? 0
normalizeScore(r) ==
    IF "todayScore" \in DOMAIN r THEN r.todayScore
    ELSE IF "score" \in DOMAIN r THEN r.score
    ELSE 0

normalizeUser(r) == [id |-> r.id, score |-> normalizeScore(r)]

\* Field renaming and defaulting only: the README's activity record has
\* the normalized names already.
normalizeActivity(r) == r

CanonicalOrder == <<"cardio", "energy", "endurance", "strength", "speed", "intensity">>

\* The mutant: an id the mapping does not have resolves to no label.
resolveLabel_none(kind, id) == IF id \in DOMAIN kind THEN kind[id] ELSE JsUndefined

resolveLabel(kind, id) == IF id \in DOMAIN kind THEN kind[id] ELSE "unknown"

\* Every entry with its id resolved to a label, and the six categories in
\* storage order, each with the value of the first entry of that label.
normalizePerformance(kind, data) ==
    LET resolved == [i \in 1..Len(data) |->
                        [value |-> data[i].value, kind |-> resolveLabel(kind, data[i].kind)]]
        first(cat) == LET hits == {i \in 1..Len(resolved) : resolved[i].kind = cat}
                      IN  IF hits = {} THEN 0
                          ELSE resolved[CHOOSE i \in hits : \A j \in hits : i <= j].value
    IN  [data |-> resolved,
         categories |-> [n \in 1..Len(CanonicalOrder) |->
                            [kind |-> CanonicalOrder[n], value |-> first(CanonicalOrder[n])]]]

GatewayOps ==
    {"getUserById", "getUserActivity", "getUserAverageSessions", "getUserPerformance"}

Normalize(op, r) ==
    CASE op = "getUserById" -> normalizeUser(r)
      [] op = "getUserActivity" -> normalizeActivity(r)
      [] op = "getUserAverageSessions" ->
            [userId |-> r.userId, sessions |-> normalizeSessions(r.sessions)]
      [] op = "getUserPerformance" ->
            [userId |-> r.userId] @@ normalizePerformance(r.kind, r.data)

\* DataService: the fixture of the mock origin and the response body of
\* the remote origin both go through the Normalizer.
DataService(m, op, r) ==
    IF m = "mock" THEN Normalize(op, r) ELSE Normalize(op, r)

\* The mutant: in mock mode the fixture is returned as it is held.
sportSeeAPI_fixture(m, op, r) == IF m = "mock" THEN r ELSE DataService(m, op, r)

\* sportSeeAPI.getUserX: `return await DataService.getUserX(userId)`.
sportSeeAPI(m, op, r) == DataService(m, op, r)

\* The i-th smallest element of a set of numbers.
Nth(S, i) == CHOOSE d \in S : Cardinality({e \in S : e <= d}) = i

\* Raw average sessions: every subset of the weekdays in ascending order,
\* and every short sequence in any order, duplicates included.
SubsetSessions ==
    {[i \in 1..Cardinality(S) |-> [day |-> Nth(S, i), sessionLength |-> 10 * Nth(S, i)]] :
        S \in SUBSET (1..WeekDays)}

ShortSessions ==
    UNION {[1..n -> {[day |-> d, sessionLength |-> v] : d \in 1..WeekDays, v \in {30, 45}}] :
              n \in 0..MaxSessionsLen}

NormalizerInputs ==
    {FormatInput("normalizeSessions", q) : q \in SubsetSessions \cup ShortSessions}
        \cup {FormatInput("normalizePerformance", r) : r \in PerformanceRecords}

GatewayInputs ==
    {FormatInput("getUserById", r) : r \in UserRecords \ {NullPayload}}
        \cup {FormatInput("getUserActivity", r) : r \in ActivityRecords}
        \cup {FormatInput("getUserAverageSessions", [userId |-> "12", sessions |-> q]) :
                    q \in SubsetSessions}
        \cup {FormatInput("getUserPerformance", r) : r \in PerformanceRecords}

\* Average sessions of any length handed to the sessions hook: the subsets
\* of the weekdays in ascending order and the short sequences in any order.
SeriesRecords ==
    {[userId |-> "12", sessions |-> q] : q \in SubsetSessions \cup ShortSessions}

\* Performance records in the documented normalized form, each entry's kind
\* its label ({value: 150, kind: "cardio"}), with and without the mapping
\* of the raw record.
NormalizedEntries ==
    {[value |-> v, kind |-> k] : v \in {80, 150}, k \in {"cardio", "energy", "intensity"}}

NormalizedRecords ==
    LET series == UNION {[1..n -> NormalizedEntries] : n \in 1..MaxPerformanceLen}
    IN  {[userId |-> "18", kind |-> KindMap, data |-> q] : q \in series}
            \cup {[userId |-> "18", data |-> q] : q \in series}

FormatInputs ==
    {FormatInput("score", v) : v \in UserRecords}
        \cup {FormatInput("sessions", v) : v \in WeekRecords}
        \cup {FormatInput("activity", v) : v \in ActivityRecords}
        \cup {FormatInput("performance", v) : v \in PerformanceRecords}
        \cup NormalizerInputs
        \cup GatewayInputs
        \cup {FormatInput("sessionSeries", v) : v \in SeriesRecords}
        \cup {FormatInput("normalizedPerformance", v) : v \in NormalizedRecords}

InitFormat ==
    /\ hooks = {}
    /\ mode = "mock"
    /\ state = [c \in Charts |-> InitialState]
    /\ requests = [c \in Charts |-> <<>>]
    /\ lastDeps = [c \in Charts |-> NoDeps]
    /\ cleanup = [c \in Charts |-> 0]
    /\ attached = [c \in Charts |-> TRUE]
    /\ remounted = [c \in Charts |-> FALSE]
    /\ renders = [c \in Charts |-> 0]
    /\ uncaught = [c \in Charts |-> FALSE]
    /\ lastEvent = [c \in Charts |-> "none"]
    /\ raw \in FormatInputs
    /\ out = None

bindingVars == <<hooks, mode, state, requests, lastDeps, cleanup, attached,
                 remounted, renders, uncaught, lastEvent>>

FormatScore ==
    /\ raw.fn = "score" /\ out = None
    /\ out' = Some(useScoreChart_try(FALSE, raw.value))
    /\ UNCHANGED <<raw, bindingVars>>

FormatSessions ==
    /\ raw.fn = "sessions" /\ out = None
    /\ out' = Some(useSessionsChart_try(FALSE, raw.value))
    /\ UNCHANGED <<raw, bindingVars>>

FormatActivity ==
    /\ raw.fn = "activity" /\ out = None
    /\ out' = Some(useActivityChart_try(FALSE, raw.value))
    /\ UNCHANGED <<raw, bindingVars>>

FormatPerformance ==
    /\ raw.fn = "performance" /\ out = None
    /\ out' = Some(usePerformanceChart_try(FALSE, raw.value))
    /\ UNCHANGED <<raw, bindingVars>>

NormalizeSessions ==
    /\ raw.fn = "normalizeSessions" /\ out = None
    /\ out' = Some(normalizeSessions(raw.value))
    /\ UNCHANGED <<raw, bindingVars>>

NormalizePerformance ==
    /\ raw.fn = "normalizePerformance" /\ out = None
    /\ out' = Some(normalizePerformance(raw.value.kind, raw.value.data))
    /\ UNCHANGED <<raw, bindingVars>>

\* One Gateway operation on the same raw record in each origin.
GatewayGet ==
    /\ raw.fn \in GatewayOps /\ out = None
    /\ out' = Some([o \in Modes |-> sportSeeAPI(o, raw.fn, raw.value)])
    /\ UNCHANGED <<raw, bindingVars>>

\* The formatted sessions object, which has a sessions array itself, comes
\* back as the raw record of a second pass.
ReformatSessions ==
    /\ raw.fn = "sessions" /\ raw.pass = 1
    /\ out # None /\ out[1].kind = "set"
    /\ raw' = [fn |-> "sessions", pass |-> 2, value |-> out[1].data]
    /\ out' = Some(useSessionsChart_try(FALSE, out[1].data))
    /\ UNCHANGED bindingVars

\* The sessions hook on a sessions array of any length.
FormatSessionSeries ==
    /\ raw.fn = "sessionSeries" /\ out = None
    /\ out' = Some(useSessionsChart_try(FALSE, raw.value))
    /\ UNCHANGED <<raw, bindingVars>>

\* The performance hook on a record in the normalized form.
FormatNormalizedPerformance ==
    /\ raw.fn = "normalizedPerformance" /\ out = None
    /\ out' = Some(usePerformanceChart_try(FALSE, raw.value))
    /\ UNCHANGED <<raw, bindingVars>>

NextFormat ==
    \/ FormatScore
    \/ FormatSessions
    \/ FormatActivity
    \/ FormatPerformance
    \/ ReformatSessions
    \/ NormalizeSessions
    \/ NormalizePerformance
    \/ GatewayGet
    \/ FormatSessionSeries
    \/ FormatNormalizedPerformance

SpecFormat == InitFormat /\ [][NextFormat]_vars

----------------------------------------------------------------------------
(* Vocabulary of the properties.                                           *)

\* Steps, as predicates on a pair of states.
Completes(c, i) ==
    /\ i \in 1..Len(requests[c])
    /\ requests[c][i].settled = "no"
    /\ requests'[c][i].settled # "no"

Invoked(c) == renders'[c] = renders[c] + 1

\* The binding is invoked again with a new dependency array of the same
\* value as the last-seen one.
SameValueInvocation(c) ==
    /\ Invoked(c)
    /\ renders[c] >= 1
    /\ lastDeps'[c].ref # lastDeps[c].ref
    /\ lastDeps'[c].items = lastDeps[c].items

IsSuccess(st) == st.loading = FALSE /\ st.data # None /\ st.error = JsNull

IsFailed(st) ==
    st.loading = FALSE /\ st.data = None /\ st.error \notin {JsNull, JsUndefined}

----------------------------------------------------------------------------
(* C1: in every interleaving, the completion of a request that is not the  *)
(* most recently started one of its binding leaves the published           *)
(* {data, loading, error} as it is, whatever the Gateway settled it with.  *)

C1_OnlyLatestRequestWrites ==
    [][\A c \in Charts : \A i \in 1..Len(requests[c]) :
          (Completes(c, i) /\ i < Len(requests[c])) => state'[c] = state[c]]_vars

\* The request for 18 settled after the request for 12 had started, the
\* request for 12 settled too, and the published state is the one of 12.
C1_Witness ==
    \E c \in hooks :
        /\ Len(requests[c]) = 2
        /\ requests[c][1].userId = "18" /\ requests[c][1].settled = "stale"
        /\ requests[c][2].userId = "12" /\ requests[c][2].settled = "live"
        /\ ~requests[c][2].isCancelled
        /\ c = "activity" => state[c] = [data |-> Some(formatActivity(ActivityFixture("12"))),
                                         loading |-> FALSE, error |-> JsNull]

(* C2: once the consumer has detached, the completion of a request that    *)
(* was pending at the teardown writes nothing to the published state.      *)

C2_NoWriteAfterTeardown ==
    [][\A c \in Charts : \A i \in 1..Len(requests[c]) :
          (Completes(c, i) /\ requests[c][i].tornDown) => state'[c] = state[c]]_vars

\* A request that was pending at the teardown has settled, and the state
\* is still the loading state its start published.
C2_Witness ==
    \E c \in hooks :
        /\ ~attached[c]
        /\ lastEvent[c] = "rejected"
        /\ \E i \in 1..Len(requests[c]) :
              requests[c][i].tornDown /\ requests[c][i].settled = "stale"
        /\ state[c] = InitialState

(* C3: an invocation with a new dependency array whose value equals the    *)
(* last-seen one starts no Gateway call; after a first invocation with a   *)
(* user id and a second with the same id, one call has been started.       *)

C3_SameValueStartsNoCall ==
    [][\A c \in Charts :
          SameValueInvocation(c) =>
              /\ requests'[c] = requests[c]
              /\ (renders[c] = 1 /\ ~remounted[c] /\ ~IsFalsy(lastDeps[c].items[1]))
                    => Len(requests'[c]) = 1]_vars

\* Invoked with [18] and again with a new [18]: one call, for 18.
C3_Witness ==
    \E c \in hooks :
        /\ renders[c] = 2 /\ lastEvent[c] = "same"
        /\ lastDeps[c] = [ref |-> 2, items |-> <<"18">>]
        /\ Len(requests[c]) = 1 /\ requests[c][1].userId = "18"

(* C4: an invocation with a dependency array whose value equals the        *)
(* last-seen one leaves the published state unchanged, in whichever state  *)
(* the binding is.                                                         *)

C4_SameValueKeepsState ==
    [][\A c \in Charts : SameValueInvocation(c) => state'[c] = state[c]]_vars

\* A binding in the failed state was invoked again with the same user id.
C4_Witness ==
    \E c \in hooks :
        /\ lastEvent[c] = "same"
        /\ IsFailed(state[c])

(* C5: a request that is neither superseded nor torn down when its call    *)
(* settles ends with loading = false: {data, loading:false, error:null}    *)
(* on resolution, {data:null, loading:false, error} on rejection.          *)

C5_AsClaimed ==
    [][\A c \in Charts : \A i \in 1..Len(requests[c]) :
          \A o \in GatewayOutcomes(c, requests[c][i].userId, mode) :
              (Complete(c, i, o) /\ ~requests[c][i].isCancelled) =>
                  IF o.kind = "resolve" THEN IsSuccess(state'[c])
                                        ELSE IsFailed(state'[c])]_vars

(* C6: a payload without the fields its entity needs (activity and         *)
(* average sessions: sessions; performance: data and kind) ends in the     *)
(* failed state with a non-null error.                                     *)

FailsShapeCheck(c, p) ==
    CASE c \in {"activity", "sessions"} -> "sessions" \notin DOMAIN p
      [] c = "performance" -> "data" \notin DOMAIN p \/ "kind" \notin DOMAIN p
      [] OTHER -> FALSE

C6_AsClaimed ==
    [][\A c \in Charts : \A i \in 1..Len(requests[c]) :
          \A o \in GatewayOutcomes(c, requests[c][i].userId, mode) :
              ( /\ Complete(c, i, o)
                /\ ~requests[c][i].isCancelled
                /\ o.kind = "resolve"
                /\ FailsShapeCheck(c, o.payload) ) => IsFailed(state'[c])]_vars

(* C7: the published state moves only along Idle -> Loading ->             *)
(* (Success | Failed) and back to Loading, and every change of the         *)
(* dependency value in Success or Failed re-enters Loading.                *)

Phase(c) ==
    IF state[c].loading
    THEN IF Len(requests[c]) = 0 THEN "Idle" ELSE "Loading"
    ELSE IF state[c].data # None THEN "Success" ELSE "Failed"

PhaseMoves ==
    { <<"Idle", "Loading">>, <<"Loading", "Success">>, <<"Loading", "Failed">>,
      <<"Success", "Loading">>, <<"Failed", "Loading">> }

DependencyChange(c) ==
    /\ Invoked(c)
    /\ renders[c] >= 1
    /\ lastDeps'[c].items # lastDeps[c].items

C7_AsClaimed ==
    [][\A c \in Charts :
          /\ Phase(c)' # Phase(c) => <<Phase(c), Phase(c)'>> \in PhaseMoves
          /\ (DependencyChange(c) /\ Phase(c) \in {"Success", "Failed"})
                => Phase(c)' = "Loading"]_vars

(* C8, as claimed: for a binding that stays attached, at most one Gateway  *)
(* call is made for each distinct user id of the sequence presented to it. *)

CallsFor(c, v) == {i \in 1..Len(requests[c]) : requests[c][i].userId = v}

C8_AsClaimed ==
    \A c \in Charts :
        ~remounted[c] => \A v \in UserIdValues : Cardinality(CallsFor(c, v)) <= 1

(* C8, amended: an invocation starts one Gateway call, for the presented   *)
(* user id, when that id is truthy and differs in value from the           *)
(* last-seen one (or is the first), and starts none otherwise: one call    *)
(* for each run of consecutive equal truthy values.                        *)

C8_OneCallPerChange ==
    [][\A c \in Charts :
          Invoked(c) =>
              LET u == lastDeps'[c].items[1]
                  changed == renders[c] = 0 \/ lastDeps[c].items # <<u>>
              IN  IF changed /\ u \notin FalsyUserIds
                  THEN /\ Len(requests'[c]) = Len(requests[c]) + 1
                       /\ requests'[c][Len(requests'[c])].userId = u
                  ELSE Len(requests'[c]) = Len(requests[c])]_vars

\* Presented 18, 12, 18: three calls, two of them for 18.
C8_Witness ==
    \E c \in hooks :
        /\ renders[c] = 3 /\ ~remounted[c]
        /\ Len(requests[c]) = 3
        /\ requests[c][1].userId = "18"
        /\ requests[c][2].userId = "12"
        /\ requests[c][3].userId = "18"

(* C9: every rejection of a Gateway call of a request that is neither      *)
(* superseded nor torn down, whatever the rejection value, is published    *)
(* as loading = false with a non-null error, and no exception escapes.     *)

C9_AsClaimed ==
    [][\A c \in Charts : \A i \in 1..Len(requests[c]) :
          \A o \in GatewayOutcomes(c, requests[c][i].userId, mode) :
              (Complete(c, i, o) /\ ~requests[c][i].isCancelled /\ o.kind = "reject") =>
                  /\ state'[c].loading = FALSE
                  /\ state'[c].error \notin {JsNull, JsUndefined}
                  /\ ~uncaught'[c]]_vars

(* C10: in both origins, once the call of the current request for a user   *)
(* id other than 12 and 18 has settled, the binding is in the failed       *)
(* state {data:null, loading:false, error non-null}.                       *)

C10_UnknownUserFails ==
    \A c \in Charts :
        LET n == Len(requests[c])
        IN  ( /\ n >= 1
              /\ requests[c][n].userId \notin {"12", "18"}
              /\ requests[c][n].settled = "live"
              /\ ~requests[c][n].isCancelled ) => IsFailed(state[c])

\* useActivityChart(999) against the remote origin has failed with the
\* not-found error.
C10_Witness ==
    /\ mode = "remote"
    /\ hooks = {"activity"}
    /\ Len(requests["activity"]) = 1
    /\ requests["activity"][1].userId = "999"
    /\ requests["activity"][1].settled = "live"
    /\ state["activity"] = [data |-> None, loading |-> FALSE, error |-> "NotFound"]

(* C11: in every reachable state of the aggregate, its loading field is    *)
(* the logical OR of the loading fields of the four chart bindings.        *)

C11_LoadingIsOr ==
    hooks = Charts => (useAllCharts.loading <=> \E c \in Charts : state[c].loading)

\* Three bindings have finished, one is still loading: the aggregate is
\* loading.
C11_Witness ==
    /\ hooks = Charts
    /\ ~state["activity"].loading
    /\ Cardinality({c \in Charts : state[c].loading}) = 1
    /\ useAllCharts.loading

(* C12: the aggregate has a field hasError that is true exactly when one   *)
(* of the four bindings has a non-null error.  Stated here up to           *)
(* truthiness: the field is truthy exactly when an error is there.         *)

C12_AsClaimed ==
    hooks = Charts =>
        ( Lookup(useAllCharts, "hasError") \notin {JsNull, JsUndefined, "false"}
            <=> \E c \in Charts : state[c].error \notin {JsNull, JsUndefined} )

(* C13: the published state of a binding changes only by an event of that  *)
(* binding: a completion on one binding leaves the other three states as   *)
(* they are, a started request publishes the loading state built from the  *)
(* binding's own state, and a binding with no event keeps its state.       *)

C13_BindingsIndependent ==
    [][\A c \in Charts :
          /\ \A i \in 1..Len(requests[c]) :
                \A o \in GatewayOutcomes(c, requests[c][i].userId, mode) :
                    Complete(c, i, o) =>
                        \A d \in Charts \ {c} : state'[d] = state[d]
          /\ Len(requests'[c]) > Len(requests[c]) => state'[c] = loadingState(state[c])
          /\ state'[c] # state[c] =>
                \/ Len(requests'[c]) > Len(requests[c])
                \/ \E i \in 1..Len(requests[c]) : Completes(c, i)]_vars

\* One binding has just been rejected and has failed while the three
\* others still show the loading state of their own pending request.
C13_Witness ==
    /\ hooks = Charts
    /\ lastEvent["sessions"] = "rejected" /\ IsFailed(state["sessions"])
    /\ \A d \in Charts \ {"sessions"} :
            /\ state[d] = InitialState
            /\ Len(requests[d]) = 1 /\ IsPending(requests[d][1])

(* C14: whenever one chart binding has failed and another has succeeded,   *)
(* the aggregate hands the succeeding chart's data on to the consumer.     *)

----------------------------------------------------------------------------
(* Vocabulary of the properties on the formatting steps.                   *)

Formatted(fn) == raw.fn = fn /\ raw.pass = 1 /\ out # None

\* First-present-wins: todayScore when the record has it, else score when
\* the record has it, else 0.
FirstPresentScore(r) ==
    IF "todayScore" \in DOMAIN r THEN r.todayScore
    ELSE IF "score" \in DOMAIN r THEN r.score
    ELSE 0

Digit(n) == <<"0", "1", "2", "3", "4", "5", "6", "7", "8", "9">>[n + 1]

RECURSIVE DecimalString(_)
DecimalString(n) ==
    IF n < 10 THEN Digit(n) ELSE DecimalString(n \div 10) \o Digit(n % 10)

(* C15: the score used is todayScore whenever the record has it, 0         *)
(* included, else score, else 0: the percentage published is the one of    *)
(* that score.                                                             *)

C15_AsClaimed ==
    Formatted("score") =>
        /\ out[1].kind = "set"
        /\ out[1].data.percentage = percentageOf(FirstPresentScore(raw.value))

(* C16: the percentage is round(score * 100): a record with only           *)
(* todayScore or only score, of h hundredths with h in 0..100, yields the  *)
(* percentage h (0.3 gives 30, 0 gives 0, 1 gives 100, 0.12 gives 12).     *)

C16_PercentageOfScore ==
    Formatted("score") =>
        \A h \in 0..100 :
            raw.value \in {[id |-> "18", todayScore |-> 10 * h],
                           [id |-> "12", score |-> 10 * h]}
                => out = Some(Set([percentage |-> h]))

\* The record of user 12 with only score = 0.12 has given 12.
C16_Witness ==
    /\ raw = FormatInput("score", [id |-> "12", score |-> 120])
    /\ out = Some(Set([percentage |-> 12]))

(* C17: the published percentage is within 0..100 for every score          *)
(* delivered, and both pie segments are non-negative.                      *)

C17_AsClaimed ==
    Formatted("score") =>
        /\ out[1].kind = "set"
        /\ out[1].data.percentage \in 0..100
        /\ 100 - out[1].data.percentage >= 0

(* C18: for a 7-entry sequence of days 1..7 the ghost-point step gives 9   *)
(* entries of days 0..8 in order; the first has the duration of the        *)
(* second and the last the duration of the one before it; the first and    *)
(* the last are ghosts; entries 2..8 carry the day and duration of the     *)
(* input entries, in order, and are not ghosts.                            *)

C18_GhostPoints ==
    Formatted("sessions") =>
        /\ out[1].kind = "set"
        /\ LET q == out[1].data.sessions
                src == raw.value.sessions
           IN  /\ Len(src) = 7 /\ Len(q) = 9
               /\ \A k \in 1..9 : q[k].day = k - 1
               /\ q[1].sessionLength = q[2].sessionLength
               /\ q[9].sessionLength = q[8].sessionLength
               /\ \A k \in {1, 9} : "isGhost" \in DOMAIN q[k] /\ q[k].isGhost
               /\ \A k \in 2..8 :
                     /\ q[k].day = src[k - 1].day
                     /\ q[k].sessionLength = src[k - 1].sessionLength
                     /\ "isGhost" \in DOMAIN q[k] => ~q[k].isGhost

\* A week that starts with 30 minutes and ends with 60 has been extended
\* by a ghost of 30 minutes on day 0 and a ghost of 60 minutes on day 8.
C18_Witness ==
    /\ Formatted("sessions")
    /\ raw.value.sessions[1].sessionLength = 30
    /\ raw.value.sessions[7].sessionLength = 60
    /\ out[1].kind = "set"
    /\ out[1].data.sessions[1] =
            [day |-> 0, dayIndex |-> 0, sessionLength |-> 30,
             isReal |-> FALSE, isGhost |-> TRUE]
    /\ out[1].data.sessions[9] =
            [day |-> 8, dayIndex |-> 8, sessionLength |-> 60,
             isReal |-> FALSE, isGhost |-> TRUE]

(* C19: the ghost-point step applied to its own 9-entry output is          *)
(* rejected; at the least it never publishes a sequence in which a day     *)
(* (0 and 8) occurs twice.  Stated in the weaker form: whatever the second *)
(* pass publishes has no day twice.                                        *)

DaysDistinct(q) == \A i, j \in 1..Len(q) : q[i].day = q[j].day => i = j

C19_AsClaimed ==
    (raw.fn = "sessions" /\ raw.pass = 2 /\ out # None) =>
        (out[1].kind = "set" => DaysDistinct(out[1].data.sessions))

(* C20: the activity formatting maps n entries to n entries in the same    *)
(* order; the i-th has index i and the decimal string of i as display      *)
(* index, whatever its date label, and the weight and calories of the      *)
(* i-th input entry.                                                       *)

C20_ActivityIndex ==
    Formatted("activity") =>
        /\ out[1].kind = "set"
        /\ LET q == out[1].data.sessions
                src == raw.value.sessions
           IN  /\ Len(q) = Len(src)
               /\ \A i \in 1..Len(src) :
                     /\ q[i].day = i
                     /\ q[i].displayDay = DecimalString(i)
                     /\ q[i].kilogram = src[i].kilogram
                     /\ q[i].calories = src[i].calories

\* Three entries, the first two of the same date label: indexes 1, 2, 3.
C20_Witness ==
    /\ Formatted("activity")
    /\ Len(raw.value.sessions) = 3
    /\ raw.value.sessions[1].day = raw.value.sessions[2].day
    /\ raw.value.sessions[1].kilogram # raw.value.sessions[3].kilogram
    /\ out[1].kind = "set"
    /\ [i \in 1..3 |-> out[1].data.sessions[i].displayDay] = <<"1", "2", "3">>

\* The six categories in display order, by the labels of the kind mapping.
DisplayOrder == <<"intensity", "speed", "strength", "endurance", "energy", "cardio">>

\* The entries of the data array whose id resolves through the record's own
\* kind mapping to the category.
EntriesOf(r, category) ==
    {i \in 1..Len(r.data) :
        r.data[i].kind \in DOMAIN r.kind /\ r.kind[r.data[i].kind] = category}

(* C21: for every performance input, whatever its order, its categories,  *)
(* its duplicates and its extra entries, the output has six entries in the *)
(* order intensity, speed, strength, endurance, energy, cardio, each with  *)
(* upper bound 250.                                                        *)

C21_SixInFixedOrder ==
    Formatted("performance") =>
        /\ out[1].kind = "set"
        /\ Len(out[1].data) = 6
        /\ \A n \in 1..6 :
              /\ out[1].data[n].subject = kindTranslations[DisplayOrder[n]]
              /\ out[1].data[n].fullMark = 250

\* An input of three entries, two of them for the same category and one of
\* an id that is in no mapping, listed cardio first, has given six entries.
C21_Witness ==
    /\ Formatted("performance")
    /\ raw.value.kind = KindMap
    /\ Len(raw.value.data) = 3
    /\ [i \in 1..3 |-> raw.value.data[i].kind] = <<"1", "9", "1">>
    /\ out[1].kind = "set"
    /\ [n \in 1..6 |-> out[1].data[n].subject] =
            <<"Intensite", "Vitesse", "Force", "Endurance", "Energie", "Cardio">>

(* C22: for each of the six categories the emitted value is the value of   *)
(* the first entry, in input order, whose id resolves through the kind     *)
(* mapping to that category, and 0 when no entry does.                     *)

C22_FirstMatchOrZero ==
    Formatted("performance") =>
        /\ out[1].kind = "set"
        /\ \A n \in 1..6 :
              LET hits == EntriesOf(raw.value, DisplayOrder[n])
              IN  IF hits = {}
                  THEN out[1].data[n].value = 0
                  ELSE \E i \in hits :
                          /\ \A j \in hits : i <= j
                          /\ out[1].data[n].value = raw.value.data[i].value

\* Two entries for speed, 150 then 80, and none for cardio: speed is 150,
\* cardio is 0.
C22_Witness ==
    /\ Formatted("performance")
    /\ raw.value.kind = KindMap
    /\ raw.value.data = <<[value |-> 150, kind |-> "5"], [value |-> 80, kind |-> "5"]>>
    /\ out[1].kind = "set"
    /\ out[1].data[2] = [subject |-> "Vitesse", value |-> 150, fullMark |-> 250]
    /\ out[1].data[6] = [subject |-> "Cardio", value |-> 0, fullMark |-> 250]

\* The weekdays of a raw sessions sequence.
DaysOf(q) == {q[i].day : i \in 1..Len(q)}

(* C23: for every raw sessions sequence whose days are a subset of 1..7,   *)
(* the normalized sequence has 7 entries of days 1..7 ascending; a day of  *)
(* the input keeps a sessionLength the input gives it, and a day absent    *)
(* from the input has sessionLength 0.                                     *)

C23_SevenAscendingPadded ==
    Formatted("normalizeSessions") =>
        LET q == out[1]
            src == raw.value
        IN  /\ Len(q) = 7
            /\ \A d \in 1..7 : q[d].day = d
            /\ \A d \in 1..7 :
                  IF d \in DaysOf(src)
                  THEN \E i \in 1..Len(src) :
                          src[i].day = d /\ q[d].sessionLength = src[i].sessionLength
                  ELSE q[d].sessionLength = 0

\* Days 1 (30 minutes) and 3 (45 minutes) have given seven entries, day 2
\* with 0.
C23_Witness ==
    /\ Formatted("normalizeSessions")
    /\ raw.value = <<[day |-> 1, sessionLength |-> 30], [day |-> 3, sessionLength |-> 45]>>
    /\ out[1] = [d \in 1..7 |->
                    [day |-> d,
                     sessionLength |-> IF d = 1 THEN 30 ELSE IF d = 3 THEN 45 ELSE 0]]

(* C24: a performance entry whose id the mapping does not have is kept,    *)
(* with the label "unknown", and the normalized record holds the six       *)
(* fixed categories, no more and no fewer.                                 *)

IsNormalized(op, e) ==
    CASE op = "getUserById" -> "score" \in DOMAIN e /\ "todayScore" \notin DOMAIN e
      [] op = "getUserAverageSessions" ->
            Len(e.sessions) = 7 /\ \A d \in 1..7 : e.sessions[d].day = d
      [] op = "getUserPerformance" ->
            /\ \A i \in 1..Len(e.data) : e.data[i].kind \notin {"1", "2", "5", "6", "9"}
            /\ "categories" \in DOMAIN e
      [] OTHER -> TRUE

(* C25: for the same raw record, each of the four Gateway operations       *)
(* returns the same entity in the mock and in the remote origin, and that  *)
(* entity is the normalized one, never the raw record.                     *)

C26_LastOccurrenceWins ==
    Formatted("normalizeSessions") =>
        \A d \in DaysOf(raw.value) :
            LET occ == {i \in 1..Len(raw.value) : raw.value[i].day = d}
                last == CHOOSE i \in occ : \A j \in occ : j <= i
            IN  out[1][d].sessionLength = raw.value[last].sessionLength

\* Day 2 given as 30, then day 5, then day 2 again as 45: day 2 is 45.
C26_Witness ==
    /\ Formatted("normalizeSessions")
    /\ raw.value = <<[day |-> 2, sessionLength |-> 30], [day |-> 5, sessionLength |-> 30],
                     [day |-> 2, sessionLength |-> 45]>>
    /\ out[1][2].sessionLength = 45

(* C27, as claimed: whenever the user id presented to a binding differs in *)
(* value from the last-seen one, null against undefined and NaN against    *)
(* null included, the invocation starts a new request.                     *)

C27_AsClaimed ==
    [][\A c \in Charts :
          DependencyChange(c) => Len(requests'[c]) = Len(requests[c]) + 1]_vars

(* C28: in every reachable state of a binding, an error that is not null   *)
(* comes with loading = false and data = null.                             *)

C28_ErrorImpliesSettled ==
    \A c \in Charts :
        state[c].error # JsNull => (state[c].loading = FALSE /\ state[c].data = None)

\* The second request of a binding has failed and its message is published.
C28_Witness ==
    \E c \in hooks :
        /\ Len(requests[c]) = 2
        /\ requests[c][1].settled = "live"
        /\ requests[c][2].settled = "live"
        /\ lastEvent[c] = "rejected"
        /\ state[c].error \in {"NotFound", "Network"}

(* C29, as claimed: in every reachable state of a binding, loading = false *)
(* comes with exactly one of data and error present; a state with          *)
(* loading = false that has neither data nor an error is never reached.    *)

C29_AsClaimed ==
    \A c \in Charts :
        state[c].loading = FALSE =>
            ((state[c].data # None) # (state[c].error \notin {JsNull, JsUndefined}))

(* C30, as claimed: while the user id last presented to a binding is       *)
(* falsy, the binding has made no Gateway call for it and its published    *)
(* state is the initial {data:null, loading:true, error:null}.             *)

C30_AsClaimed ==
    \A c \in Charts :
        (renders[c] >= 1 /\ attached[c] /\ IsFalsy(lastDeps[c].items[1])) =>
            /\ \A i \in 1..Len(requests[c]) : ~IsFalsy(requests[c][i].userId)
            /\ state[c] = InitialState

(* C31: when a change of the user id starts a new request from Success,    *)
(* the state published at the start is {data: the data of the previous     *)
(* user id, loading:true, error:null}, and that state stays published for  *)
(* as long as the new request is pending.                                  *)

StartsRequest(c) == Len(requests'[c]) = Len(requests[c]) + 1

LatestStaysPending(c) ==
    /\ Len(requests[c]) >= 1
    /\ Len(requests'[c]) = Len(requests[c])
    /\ IsPending(requests'[c][Len(requests'[c])])

C31_LoadStartKeepsData ==
    [][\A c \in Charts :
          /\ (DependencyChange(c) /\ IsSuccess(state[c]) /\ StartsRequest(c)) =>
                state'[c] = [data |-> state[c].data, loading |-> TRUE, error |-> JsNull]
          /\ LatestStaysPending(c) => state'[c] = state[c]]_vars

\* The request for a second user id is pending and the data published is
\* still the one of the first user id.
C31_Witness ==
    \E c \in hooks :
        /\ Len(requests[c]) = 2
        /\ requests[c][1].userId = "18" /\ requests[c][1].settled = "live"
        /\ requests[c][2].userId = "12" /\ IsPending(requests[c][2])
        /\ state[c].loading /\ state[c].error = JsNull
        /\ c = "score" => state[c].data = Some([percentage |-> 30])
        /\ state[c].data # None

(* C32, as claimed: whenever the published state has loading = false and   *)
(* data, that data comes from the response to the request made for the     *)
(* user id the binding currently has, never from one for an earlier id.    *)

DataOf(c, u) ==
    {t.data : t \in {x \in {loadData_try(c, FALSE, Resolve(p)) : p \in Payloads(c, u)} :
                        x.kind = "set"}}

CurrentUserId(c) == lastDeps[c].items[1]

C32_AsClaimed ==
    \A c \in Charts :
        (state[c].loading = FALSE /\ state[c].data # None) =>
            /\ CurrentUserId(c) \in KnownUserIds
            /\ \E i \in 1..Len(requests[c]) :
                    /\ requests[c][i].userId = CurrentUserId(c)
                    /\ requests[c][i].settled = "live"
            /\ state[c].data[1] \in DataOf(c, CurrentUserId(c))

(* C33: in every reachable state a binding has at most one pending request *)
(* that is not marked stale, and none once the consumer has detached: the  *)
(* start of a request and the teardown mark the previous one stale.        *)

LivePending(c) ==
    {i \in 1..Len(requests[c]) : IsPending(requests[c][i]) /\ ~requests[c][i].isCancelled}

C33_OneLiveRequest ==
    \A c \in Charts :
        /\ Cardinality(LivePending(c)) <= 1
        /\ LivePending(c) \subseteq {Len(requests[c])}
        /\ ~attached[c] => LivePending(c) = {}

\* Three requests are pending at once and only the last is not stale.
C33_Witness ==
    \E c \in hooks :
        /\ Len(requests[c]) = 3
        /\ \A i \in 1..3 : IsPending(requests[c][i])
        /\ requests[c][1].isCancelled /\ requests[c][2].isCancelled
        /\ LivePending(c) = {3}

(* C34: a teardown followed by a re-attachment with the same user id       *)
(* starts a second Gateway call for that id; the outcome of the first call *)
(* is discarded and a state published afterwards is the outcome of the     *)
(* second.                                                                 *)

Reattaches(c) == ~attached[c] /\ attached'[c]

\* The binding was re-attached after its mount and has made both calls for
\* the user id of the mount.
CalledTwice(c) == remounted[c] /\ renders[c] = 1 /\ Len(requests[c]) = 2

C34_ReattachCallsAgain ==
    [][\A c \in Charts :
          /\ (Reattaches(c) /\ ~IsFalsy(CurrentUserId(c))) =>
                /\ Len(requests[c]) = 1
                /\ Len(requests'[c]) = 2
                /\ requests'[c][2].userId = requests[c][1].userId
                /\ requests'[c][1].isCancelled /\ ~requests'[c][2].isCancelled
          /\ (CalledTwice(c) /\ Completes(c, 1)) => state'[c] = state[c]
          /\ (CalledTwice(c) /\ ~Invoked(c) /\ state'[c] # state[c]) =>
                Completes(c, 2)]_vars

\* After the re-attachment the first call has resolved, unpublished, and
\* the second has failed: the failure is what is published.
C34_Witness ==
    \E c \in hooks :
        /\ remounted[c] /\ renders[c] = 1
        /\ Len(requests[c]) = 2
        /\ requests[c][1].settled = "stale"
        /\ requests[c][2].settled = "live"
        /\ IsFailed(state[c])

(* C35: when the response of the current sessions request carries an empty *)
(* sessions array, the binding publishes {data:null, loading:false, error  *)
(* non-null}: no success state and no uncaught failure.                    *)

EmptySessions(o) ==
    /\ o.kind = "resolve"
    /\ Has(o.payload, "sessions")
    /\ o.payload.sessions = <<>>

C35_EmptySessionsFails ==
    [][\A i \in 1..Len(requests["sessions"]) :
          \A o \in GatewayOutcomes("sessions", requests["sessions"][i].userId, mode) :
              (Complete("sessions", i, o) /\ ~requests["sessions"][i].isCancelled
                    /\ EmptySessions(o)) =>
                  /\ IsFailed(state'["sessions"])
                  /\ uncaught'["sessions"] = uncaught["sessions"]]_vars

\* The sessions binding has failed with the TypeError of the empty array.
C35_Witness ==
    /\ "sessions" \in hooks
    /\ lastEvent["sessions"] = "resolved"
    /\ state["sessions"] = [data |-> None, loading |-> FALSE, error |-> "TypeError"]

(* C36: for a non-empty sessions sequence of any length n the sessions     *)
(* hook gives n + 2 entries: the first has day 0 and the duration of the   *)
(* first input entry, the last has day 8 and the duration of the last      *)
(* input entry, by position whatever their weekday, the input entries keep *)
(* their positions between them, and the days of the output are 0..8 in    *)
(* order exactly when the input is days 1..7 in order.                     *)

DaySequence(q) == [k \in 1..Len(q) |-> q[k].day]

C36_GhostsByPosition ==
    (Formatted("sessionSeries") /\ Len(raw.value.sessions) >= 1) =>
        /\ out[1].kind = "set"
        /\ LET q == out[1].data.sessions
                src == raw.value.sessions
                n == Len(src)
           IN  /\ Len(q) = n + 2
               /\ q[1].day = 0 /\ q[1].sessionLength = src[1].sessionLength
               /\ q[n + 2].day = 8 /\ q[n + 2].sessionLength = src[n].sessionLength
               /\ \A k \in 1..n :
                     /\ q[k + 1].day = src[k].day
                     /\ q[k + 1].sessionLength = src[k].sessionLength
               /\ (DaySequence(q) = <<0, 1, 2, 3, 4, 5, 6, 7, 8>>)
                     <=> (DaySequence(src) = <<1, 2, 3, 4, 5, 6, 7>>)

\* Sunday's 45 minutes first and Monday's 30 minutes second: the ghost of
\* day 0 has 45 minutes, the ghost of day 8 has 30, and the days of the
\* four entries are 0, 7, 1, 8.
C36_Witness ==
    /\ Formatted("sessionSeries")
    /\ raw.value.sessions = <<[day |-> 7, sessionLength |-> 45],
                              [day |-> 1, sessionLength |-> 30]>>
    /\ out[1].kind = "set"
    /\ DaySequence(out[1].data.sessions) = <<0, 7, 1, 8>>
    /\ out[1].data.sessions[1].sessionLength = 45
    /\ out[1].data.sessions[4].sessionLength = 30

(* C37, as claimed: for a performance record in the normalized form, each  *)
(* entry's kind its label, the performance hook publishes for each         *)
(* category the value of the record's first entry of that label, not the   *)
(* default 0.                                                              *)

FirstOfLabel(data, label) ==
    LET hits == {i \in 1..Len(data) : data[i].kind = label}
    IN  data[CHOOSE i \in hits : \A j \in hits : i <= j]

C37_AsClaimed ==
    Formatted("normalizedPerformance") =>
        /\ out[1].kind = "set"
        /\ \A i \in 1..Len(raw.value.data) :
              LET label == raw.value.data[i].kind
              IN  \E n \in 1..Len(out[1].data) :
                     /\ out[1].data[n].subject = kindTranslations[label]
                     /\ out[1].data[n].value = FirstOfLabel(raw.value.data, label).value

=============================================================================
